---- MODULE Spec2Model ----
\* A model of pkg/codegen/pcl/program.go: the node binding flags, the
\* referenced-package lists of a Program and the recursive component walks.
EXTENDS Integers, Sequences, FiniteSets, TLC

\* ------------------------------------------------------------------ bounds
\* Number of Nodes of the Program that is bound.
MaxNodes == 3
\* Number of references in the bodies of all Nodes of that Program together.
MaxRefs == 3

NodeIds == 1..MaxNodes
\* Number of distinct component directories.
MaxDirs == 2
\* Number of packages one Program references.
MaxPkgs == 3
\* Number of declarations in a tree of Programs (the root and its
\* components' Programs together).
MaxDecls == 3
\* The same two counts for the trees whose packages are aggregated.
MaxTreeDecls == 2
MaxTreePkgs == 2

Dirs == 1..MaxDirs
\* Programs: the root Program and the Program bound from each directory.
Root == 0
ProgIds == {Root} \cup Dirs

VARIABLES
    body,     \* body[n]: the Nodes referenced by n's expressions, in walk order
    node,     \* node[n]: the node struct of n (binding, bound, deps)
    bstack,   \* the binder's active binding stack (frames n, i, deps)
    cursor,   \* index of the next declaration the pass will bind
    diag,     \* outcome of the pass: "running", "ok", "CircularDependencyError"
    cycle,    \* the chain of Nodes reported with a CircularDependencyError
    setCalls, \* setCalls[n]: number of setDependencies calls made on n
    Nodes,    \* Nodes[p]: Program.Nodes of program p, in declaration order
    referencedPackages,  \* referencedPackages[p]: p.binder.referencedPackages
    files,    \* files[p]: the source files of program p, in file order
    ret,      \* what the last call of a read operation returned
    stack,    \* call stack of the recursive walk in progress
    components,    \* the accumulator of the running CollectComponents
    seenPackages,  \* the accumulator of CollectNestedPackageSnapshots
    descents, \* descents[d]: descents into the Program of directory d
    snapCalls \* snapCalls[p]: PackageSnapshots() calls on program p

bindVars == <<body, node, bstack, cursor, diag, cycle, setCalls>>
progVars == <<Nodes, referencedPackages, files>>
walkVars == <<stack, components, seenPackages, descents, snapCalls>>
vars == <<body, node, bstack, cursor, diag, cycle, setCalls,
          Nodes, referencedPackages, files, ret,
          stack, components, seenPackages, descents, snapCalls>>

\* ------------------------------------------------------------ helpers
SeqsUpTo(S, k) == UNION {[1..m -> S] : m \in 0..k}

Range(s) == {s[i] : i \in 1..Len(s)}

Contains(s, x) == \E i \in 1..Len(s) : s[i] = x

\* s without repeated elements, each kept at its first position.
RECURSIVE FirstOccurrences(_)
FirstOccurrences(s) ==
    IF Len(s) = 0 THEN <<>>
    ELSE LET init == FirstOccurrences(SubSeq(s, 1, Len(s) - 1))
             x == s[Len(s)]
         IN IF Contains(init, x) THEN init ELSE Append(init, x)

\* ------------------------------------------------------------ node struct
NewNode == [binding |-> FALSE, bound |-> FALSE, deps |-> <<>>]

\* Faulty variant: marking a node Binding also clears its bound flag.
markBinding_ClearsBound(r) == [r EXCEPT !.binding = TRUE, !.bound = FALSE]

markBinding(r) == [r EXCEPT !.binding = TRUE]

\* Faulty variant: markBound sets the wrong flag.
markBound_SetsBinding(r) == [r EXCEPT !.binding = TRUE]

markBound(r) == [r EXCEPT !.bound = TRUE]

\* Faulty variant: the negation of the bound flag is lost.
isBinding_WhenBound(r) == r.binding /\ r.bound

\* Faulty variant: isBinding reports the binding flag alone.
isBinding_IgnoresBound(r) == r.binding

isBinding(r) == r.binding /\ ~r.bound

\* Faulty variant: isBound reports the binding flag.
isBound_ReadsBinding(r) == r.binding

\* Faulty variant: isBound is true as soon as the node was marked at all.
isBound_WhenMarked(r) == r.bound \/ r.binding

isBound(r) == r.bound

getDependencies(r) == r.deps

setDependencies(r, nodes) == [r EXCEPT !.deps = nodes]

\* The binding state a caller observes through isBinding and isBound.
Unbound == 0
Binding == 1
Bound == 2
bindingState(r) ==
    IF isBound(r) THEN Bound ELSE IF isBinding(r) THEN Binding ELSE Unbound

\* ------------------------------------------------------------ binding pass
\* The binder that drives the node flags (section 4.1 of the design).
Frame(n) == [n |-> n, i |-> 1, deps |-> <<>>]

Top == bstack[Len(bstack)]

Pop == SubSeq(bstack, 1, Len(bstack) - 1)

ReplaceTop(f) == [bstack EXCEPT ![Len(bstack)] = f]

\* The pass takes the next declaration: a Node already bound as somebody's
\* dependency is skipped, any other is marked Binding and its body walked.
BindNextDeclaration ==
    /\ diag = "running"
    /\ bstack = <<>>
    /\ cursor <= MaxNodes
    /\ IF isBound(node[cursor])
       THEN /\ cursor' = cursor + 1
            /\ UNCHANGED <<node, bstack>>
       ELSE /\ node' = [node EXCEPT ![cursor] = markBinding(node[cursor])]
            /\ bstack' = <<Frame(cursor)>>
            /\ cursor' = cursor + 1
    /\ UNCHANGED <<body, diag, cycle, setCalls, progVars, ret, walkVars>>

\* Reference to a Bound Node: used directly, appended once.
UseBound ==
    /\ diag = "running"
    /\ bstack # <<>>
    /\ Top.i <= Len(body[Top.n])
    /\ LET d == body[Top.n][Top.i]
       IN /\ isBound(node[d])
          /\ bstack' = ReplaceTop([Top EXCEPT
                 !.i = @ + 1,
                 !.deps = IF Contains(@, d) THEN @ ELSE Append(@, d)])
    /\ UNCHANGED <<body, node, cursor, diag, cycle, setCalls, progVars, ret, walkVars>>

\* The Nodes of the active stack from the frame of d up to the top, then d.
CycleChain(d) ==
    LET k == CHOOSE j \in 1..Len(bstack) : bstack[j].n = d
    IN [j \in 1..(Len(bstack) - k + 1) |-> bstack[k + j - 1].n] \o <<d>>

\* Reference to a Node that is still Binding: the pass fails.
DetectCycle ==
    /\ diag = "running"
    /\ bstack # <<>>
    /\ Top.i <= Len(body[Top.n])
    /\ LET d == body[Top.n][Top.i]
       IN /\ ~isBound(node[d])
          /\ isBinding(node[d])
          /\ cycle' = (IF \E j \in 1..Len(bstack) : bstack[j].n = d
                       THEN CycleChain(d) ELSE <<d>>)
    /\ diag' = "CircularDependencyError"
    /\ bstack' = <<>>
    /\ UNCHANGED <<body, node, cursor, setCalls, progVars, ret, walkVars>>

\* Reference to an Unbound Node: it is bound first, then used. The stack
\* never holds a Node twice, so its depth stays within MaxNodes.
BindDependency ==
    /\ diag = "running"
    /\ bstack # <<>>
    /\ Len(bstack) <= MaxNodes
    /\ Top.i <= Len(body[Top.n])
    /\ LET d == body[Top.n][Top.i]
       IN /\ ~isBound(node[d])
          /\ ~isBinding(node[d])
          /\ node' = [node EXCEPT ![d] = markBinding(node[d])]
          /\ bstack' = Append(bstack, Frame(d))
    /\ UNCHANGED <<body, cursor, diag, cycle, setCalls, progVars, ret, walkVars>>

\* The body is walked: markBound, then setDependencies with the list.
FinishNode ==
    /\ diag = "running"
    /\ bstack # <<>>
    /\ Top.i > Len(body[Top.n])
    /\ node' = [node EXCEPT
           ![Top.n] = setDependencies(markBound(node[Top.n]), Top.deps)]
    /\ setCalls' = [setCalls EXCEPT ![Top.n] = @ + 1]
    /\ bstack' = Pop
    /\ UNCHANGED <<body, cursor, diag, cycle, progVars, ret, walkVars>>

\* Every declaration was taken: the pass completes.
BindDone ==
    /\ diag = "running"
    /\ bstack = <<>>
    /\ cursor > MaxNodes
    /\ diag' = "ok"
    /\ UNCHANGED <<body, node, bstack, cursor, cycle, setCalls, progVars, ret, walkVars>>

\* The body of n in a Program whose references, in source order, are the
\* pairs <<referencing Node, referenced Node>> of refs.
BodyOf(refs, n) ==
    LET own == SelectSeq(refs, LAMBDA p : p[1] = n)
    IN [i \in 1..Len(own) |-> own[i][2]]

InitBind ==
    /\ \E refs \in SeqsUpTo(NodeIds \X NodeIds, MaxRefs) :
           body = [n \in NodeIds |-> BodyOf(refs, n)]
    /\ node = [n \in NodeIds |-> NewNode]
    /\ bstack = <<>>
    /\ cursor = 1
    /\ diag = "running"
    /\ cycle = <<>>
    /\ setCalls = [n \in NodeIds |-> 0]
    /\ Nodes = [p \in ProgIds |-> <<>>]
    /\ referencedPackages = [p \in ProgIds |-> <<>>]
    /\ files = [p \in ProgIds |-> <<>>]
    /\ ret = [op |-> "none"]
    /\ stack = <<>>
    /\ components = <<>>
    /\ seenPackages = <<>>
    /\ descents = [d \in Dirs |-> 0]
    /\ snapCalls = [p \in ProgIds |-> 0]

NextBind ==
    \/ BindNextDeclaration
    \/ UseBound
    \/ DetectCycle
    \/ BindDependency
    \/ FinishNode
    \/ BindDone

\* The pass is one synchronous call: it keeps running until it returns.
SpecBind == InitBind /\ [][NextBind]_vars /\ WF_vars(NextBind)

\* ------------------------------------------------- arbitrary use of a node
\* Any sequence of markBinding, markBound and setDependencies calls on the
\* node structs, with no binder discipline.
CallMarkBinding(n) ==
    /\ node' = [node EXCEPT ![n] = markBinding(node[n])]
    /\ UNCHANGED <<body, bstack, cursor, diag, cycle, setCalls, progVars, ret, walkVars>>

CallMarkBound(n) ==
    /\ node' = [node EXCEPT ![n] = markBound(node[n])]
    /\ UNCHANGED <<body, bstack, cursor, diag, cycle, setCalls, progVars, ret, walkVars>>

CallSetDependencies(n, nodes) ==
    /\ node' = [node EXCEPT ![n] = setDependencies(node[n], nodes)]
    /\ UNCHANGED <<body, bstack, cursor, diag, cycle, setCalls, progVars, ret, walkVars>>

InitNode ==
    /\ body = [n \in NodeIds |-> <<>>]
    /\ node = [n \in NodeIds |-> NewNode]
    /\ bstack = <<>>
    /\ cursor = 1
    /\ diag = "running"
    /\ cycle = <<>>
    /\ setCalls = [n \in NodeIds |-> 0]
    /\ Nodes = [p \in ProgIds |-> <<>>]
    /\ referencedPackages = [p \in ProgIds |-> <<>>]
    /\ files = [p \in ProgIds |-> <<>>]
    /\ ret = [op |-> "none"]
    /\ stack = <<>>
    /\ components = <<>>
    /\ seenPackages = <<>>
    /\ descents = [d \in Dirs |-> 0]
    /\ snapCalls = [p \in ProgIds |-> 0]

NextNode ==
    \/ \E n \in NodeIds : CallMarkBinding(n)
    \/ \E n \in NodeIds : CallMarkBound(n)
    \/ \E n \in NodeIds, nodes \in SeqsUpTo(NodeIds, 1) :
           CallSetDependencies(n, nodes)

SpecNode == InitNode /\ [][NextNode]_vars

\* ------------------------------------------------------------ package keys
\* Strings are sequences of letters; these stand for "a", "aa", "ab", "b".
PkgKeys == {<<1>>, <<1, 1>>, <<1, 2>>, <<2>>}

PkgNames == {"aws", "random"}

\* Go's string order: a is less than b.
StrLess(a, b) ==
    \E i \in 1..(Len(a) + 1) :
        /\ \A j \in 1..(i - 1) : j <= Len(b) /\ a[j] = b[j]
        /\ i <= Len(b)
        /\ (i > Len(a) \/ a[i] < b[i])

InsertString(sorted, x) ==
    LET k == Cardinality({i \in 1..Len(sorted) : ~StrLess(x, sorted[i])})
    IN SubSeq(sorted, 1, k) \o <<x>> \o SubSeq(sorted, k + 1, Len(sorted))

\* Faulty variant: the keys are left in map iteration order.
SortStrings_Unsorted(keys) == keys

RECURSIVE SortStringsFrom(_, _)
SortStringsFrom(sorted, rest) ==
    IF rest = <<>> THEN sorted
    ELSE SortStringsFrom(InsertString(sorted, Head(rest)), Tail(rest))

\* sort.Strings
SortStrings(keys) == SortStringsFrom(<<>>, keys)

\* The orders in which a range over a map with key set S may yield the keys.
RangeOrders(S) == {o \in [1..Cardinality(S) -> S] : Range(o) = S}

\* A schema.PackageReference: a full package or a *schema.PartialPackage;
\* fails tells whether the schema loader returns an error for it.
PackageReference(name, version, partial, fails) ==
    [name |-> name, version |-> version, partial |-> partial, fails |-> fails]

\* The *schema.Package the loader returns for ref through method via.
Package(ref, via) == [name |-> ref.name, version |-> ref.version, via |-> via]

NoError == [failed |-> FALSE, name |-> ""]

\* fmt.Errorf("defining package '%v': %w", ref.Name(), err)
DefiningPackageError(ref) == [failed |-> TRUE, name |-> ref.name]

\* ------------------------------------------------------ PackageReferences
\* order is the order in which the range over the map yields its keys.
PackageReferences(p, order) ==
    LET keys == SortStrings(order)
    IN [i \in 1..Len(keys) |-> referencedPackages[p][keys[i]]]

\* ------------------------------------------------------- PackageSnapshots
\* Faulty variant: every reference is resolved through Definition().
LoaderMethod_AlwaysDefinition(ref) == "Definition"

\* The type switch on the reference.
LoaderMethod(ref) == IF ref.partial THEN "Snapshot" ELSE "Definition"

\* Faulty variant: the packages resolved before the failure are returned with it.
SnapshotFailure_Partial(values, ref, calls) ==
    [values |-> values, isNil |-> FALSE, err |-> DefiningPackageError(ref),
     calls |-> calls]

\* return nil, fmt.Errorf(...)
SnapshotFailure(values, ref, calls) ==
    [values |-> <<>>, isNil |-> TRUE, err |-> DefiningPackageError(ref),
     calls |-> calls]

\* The loop over the sorted keys from index i on; calls lists the loader
\* calls made so far as <<key, method>>.
RECURSIVE SnapshotLoop(_, _, _, _, _)
SnapshotLoop(p, keys, i, values, calls) ==
    IF i > Len(keys)
    THEN [values |-> values, isNil |-> FALSE, err |-> NoError, calls |-> calls]
    ELSE LET ref == referencedPackages[p][keys[i]]
             via == LoaderMethod(ref)
             called == Append(calls, <<keys[i], via>>)
         IN IF ref.fails
            THEN SnapshotFailure(values, ref, called)
            ELSE SnapshotLoop(p, keys, i + 1,
                              Append(values, Package(ref, via)), called)

PackageSnapshots(p, order) == SnapshotLoop(p, SortStrings(order), 1, <<>>, <<>>)

\* --------------------------------------------- one Program and its packages
\* The binder meets a reference to a package it has not recorded yet.
InsertReference(k, ref) ==
    /\ k \notin DOMAIN referencedPackages[Root]
    /\ Cardinality(DOMAIN referencedPackages[Root]) < MaxPkgs
    /\ referencedPackages' =
           [referencedPackages EXCEPT ![Root] = @ @@ (k :> ref)]
    /\ ret' = [op |-> "none"]
    /\ UNCHANGED <<bindVars, Nodes, files, walkVars>>

CallPackageReferences ==
    /\ stack = <<>>
    /\ \E order \in RangeOrders(DOMAIN referencedPackages[Root]) :
           ret' = [op |-> "PackageReferences",
                   refs |-> PackageReferences(Root, order)]
    /\ UNCHANGED <<bindVars, progVars, walkVars>>

CallPackageSnapshots ==
    /\ stack = <<>>
    /\ \E order \in RangeOrders(DOMAIN referencedPackages[Root]) :
           ret' = [op |-> "PackageSnapshots"] @@ PackageSnapshots(Root, order)
    /\ UNCHANGED <<bindVars, progVars, walkVars>>

InitPkg ==
    /\ body = [n \in NodeIds |-> <<>>]
    /\ node = [n \in NodeIds |-> NewNode]
    /\ bstack = <<>>
    /\ cursor = 1
    /\ diag = "ok"
    /\ cycle = <<>>
    /\ setCalls = [n \in NodeIds |-> 0]
    /\ Nodes = [p \in ProgIds |-> <<>>]
    /\ referencedPackages = [p \in ProgIds |-> <<>>]
    /\ files = [p \in ProgIds |-> <<>>]
    /\ ret = [op |-> "none"]
    /\ stack = <<>>
    /\ components = <<>>
    /\ seenPackages = <<>>
    /\ descents = [d \in Dirs |-> 0]
    /\ snapCalls = [p \in ProgIds |-> 0]

NextPkg ==
    \/ \E k \in PkgKeys, name \in PkgNames, partial \in BOOLEAN,
          fails \in BOOLEAN :
           InsertReference(k, PackageReference(name, 1, partial, fails))
    \/ CallPackageReferences
    \/ CallPackageSnapshots

SpecPkg == InitPkg /\ [][NextPkg]_vars

\* ----------------------------------------------------------- program tree
\* A declaration of a Program: a *Component with its DirPath(), whose
\* nested Program is the one bound from that directory, or any other Node.
ComponentNode(d) == [kind |-> "Component", dir |-> d]

OtherNode(kind) == [kind |-> kind, dir |-> Root]

IsComponent(n) == n.kind = "Component"

DirPath(n) == n.dir

\* node.Program of a Component node.
ProgramOf(n) == n.dir

\* m[k] = v on a Go map.
MapPut(m, k, v) == (k :> v) @@ m

\* The directories of the Components declared in program p.
ComponentDirs(p) ==
    {DirPath(Nodes[p][i]) : i \in {j \in 1..Len(Nodes[p]) : IsComponent(Nodes[p][j])}}

RECURSIVE DirClosure(_)
DirClosure(S) ==
    LET T == S \cup UNION {ComponentDirs(d) : d \in S}
    IN IF T = S THEN S ELSE DirClosure(T)

\* The directories of all Components reachable from program p.
ReachableDirs(p) == DirClosure(ComponentDirs(p))

\* Components own their nested Programs: no Program contains itself, and
\* a directory no Component names has no Program.
IsTree ==
    /\ \A d \in Dirs : d \notin ReachableDirs(d)
    /\ \A d \in Dirs \ ReachableDirs(Root) : Nodes[d] = <<>>

NoStrayPackages ==
    \A d \in Dirs \ ReachableDirs(Root) : referencedPackages[d] = <<>>

\* ------------------------------------------------------ CollectComponents
WalkFrame(p) == [fn |-> "collectComponentsRecursive", p |-> p, pc |-> "loop",
                 i |-> 1, comps |-> <<>>]

StackTop == stack[Len(stack)]

StackPop == SubSeq(stack, 1, Len(stack) - 1)

SetTop(f) == [stack EXCEPT ![Len(stack)] = f]

NoDescents == [d \in Dirs |-> 0]

\* Faulty variant: the directory is never found in the accumulator.
Seen_Never(m, key) == FALSE

\* Faulty variant: the test of the lookup is inverted.
Seen_Inverted(m, key) == key \notin DOMAIN m

\* _, seen := m[key]
Seen(m, key) == key \in DOMAIN m

CallCollectComponents ==
    /\ stack = <<>>
    /\ components' = <<>>
    /\ descents' = NoDescents
    /\ stack' = <<WalkFrame(Root)>>
    /\ ret' = [op |-> "none"]
    /\ UNCHANGED <<bindVars, progVars, seenPackages, snapCalls>>

InWalk ==
    /\ stack # <<>>
    /\ StackTop.fn = "collectComponentsRecursive"

\* A Component whose directory is not in the accumulator yet: it is
\* recorded and its nested Program is walked.
collectComponentsRecursive_Descend ==
    /\ InWalk
    /\ StackTop.i <= Len(Nodes[StackTop.p])
    /\ LET n == Nodes[StackTop.p][StackTop.i]
       IN /\ IsComponent(n)
          /\ ~Seen(components, DirPath(n))
          /\ components' =
                 MapPut(components, DirPath(n), <<StackTop.p, StackTop.i>>)
          /\ descents' = [descents EXCEPT ![DirPath(n)] = @ + 1]
          /\ stack' = Append(SetTop([StackTop EXCEPT !.i = @ + 1]),
                             WalkFrame(ProgramOf(n)))
    /\ UNCHANGED <<bindVars, progVars, ret, seenPackages, snapCalls>>

\* Any other Node, or a Component whose directory was seen: next Node.
collectComponentsRecursive_Skip ==
    /\ InWalk
    /\ StackTop.i <= Len(Nodes[StackTop.p])
    /\ LET n == Nodes[StackTop.p][StackTop.i]
       IN ~IsComponent(n) \/ Seen(components, DirPath(n))
    /\ stack' = SetTop([StackTop EXCEPT !.i = @ + 1])
    /\ UNCHANGED <<bindVars, progVars, ret, components, seenPackages,
                   descents, snapCalls>>

\* End of p.Nodes: the walk of p returns; the outermost return of a
\* CollectComponents call hands the accumulator to the caller.
collectComponentsRecursive_Return ==
    /\ InWalk
    /\ StackTop.i > Len(Nodes[StackTop.p])
    /\ stack' = StackPop
    /\ ret' = (IF StackPop = <<>>
               THEN [op |-> "CollectComponents", components |-> components]
               ELSE ret)
    /\ UNCHANGED <<bindVars, progVars, components, seenPackages, descents,
                   snapCalls>>

\* ------------------------------------------ CollectNestedPackageSnapshots
SnapshotsFrame(p) == [fn |-> "collectPackageSnapshots", p |-> p,
                      pc |-> "snapshots", i |-> 1, comps |-> <<>>]

NoSnapCalls == [p \in ProgIds |-> 0]

\* Faulty variant: a later package of the same name replaces the one seen first.
RECURSIVE MergePackages_LastWins(_, _)
MergePackages_LastWins(seen, packages) ==
    IF packages = <<>> THEN seen
    ELSE LET pkg == Head(packages)
         IN MergePackages_LastWins(MapPut(seen, pkg.name, pkg), Tail(packages))

\* The loop that adds the packages whose name was not seen yet.
RECURSIVE MergePackages(_, _)
MergePackages(seen, packages) ==
    IF packages = <<>> THEN seen
    ELSE LET pkg == Head(packages)
         IN MergePackages(IF Seen(seen, pkg.name) THEN seen
                          ELSE MapPut(seen, pkg.name, pkg),
                          Tail(packages))

CallCollectNestedPackageSnapshots ==
    /\ stack = <<>>
    /\ seenPackages' = <<>>
    /\ snapCalls' = NoSnapCalls
    /\ stack' = <<SnapshotsFrame(Root)>>
    /\ ret' = [op |-> "none"]
    /\ UNCHANGED <<bindVars, progVars, components, descents>>

InSnapshots(pc) ==
    /\ stack # <<>>
    /\ StackTop.fn = "collectPackageSnapshots"
    /\ StackTop.pc = pc

\* p.PackageSnapshots() fails: every collectPackageSnapshots on the stack
\* returns the error and CollectNestedPackageSnapshots returns
\* seenPackages, err.
collectPackageSnapshots_Fail ==
    /\ InSnapshots("snapshots")
    /\ \E order \in RangeOrders(DOMAIN referencedPackages[StackTop.p]) :
           LET r == PackageSnapshots(StackTop.p, order)
           IN /\ r.err.failed
              /\ ret' = [op |-> "CollectNestedPackageSnapshots",
                         packages |-> seenPackages, err |-> r.err]
    /\ snapCalls' = [snapCalls EXCEPT ![StackTop.p] = @ + 1]
    /\ stack' = <<>>
    /\ UNCHANGED <<bindVars, progVars, components, seenPackages, descents>>

\* p.PackageSnapshots() succeeds: the packages are merged, then
\* p.CollectComponents() is called.
collectPackageSnapshots_Merge ==
    /\ InSnapshots("snapshots")
    /\ \E order \in RangeOrders(DOMAIN referencedPackages[StackTop.p]) :
           LET r == PackageSnapshots(StackTop.p, order)
           IN /\ ~r.err.failed
              /\ seenPackages' = MergePackages(seenPackages, r.values)
    /\ snapCalls' = [snapCalls EXCEPT ![StackTop.p] = @ + 1]
    /\ components' = <<>>
    /\ descents' = NoDescents
    /\ stack' = Append(SetTop([StackTop EXCEPT !.pc = "range"]),
                       WalkFrame(StackTop.p))
    /\ UNCHANGED <<bindVars, progVars, ret>>

\* p.CollectComponents() returned: the range over the returned map yields
\* its Components in some order.
collectPackageSnapshots_Range ==
    /\ InSnapshots("range")
    /\ \E order \in RangeOrders(DOMAIN components) :
           stack' = SetTop([StackTop EXCEPT
               !.pc = "loop",
               !.i = 1,
               !.comps = [k \in 1..Len(order) |-> components[order[k]]]])
    /\ UNCHANGED <<bindVars, progVars, ret, components, seenPackages,
                   descents, snapCalls>>

\* component.Program.collectPackageSnapshots(seenPackages)
collectPackageSnapshots_Recurse ==
    /\ InSnapshots("loop")
    /\ StackTop.i <= Len(StackTop.comps)
    /\ LET c == StackTop.comps[StackTop.i]
       IN stack' = Append(SetTop([StackTop EXCEPT !.i = @ + 1]),
                          SnapshotsFrame(ProgramOf(Nodes[c[1]][c[2]])))
    /\ UNCHANGED <<bindVars, progVars, ret, components, seenPackages,
                   descents, snapCalls>>

\* return nil; the outermost return ends CollectNestedPackageSnapshots.
collectPackageSnapshots_Return ==
    /\ InSnapshots("loop")
    /\ StackTop.i > Len(StackTop.comps)
    /\ stack' = StackPop
    /\ ret' = (IF StackPop = <<>>
               THEN [op |-> "CollectNestedPackageSnapshots",
                     packages |-> seenPackages, err |-> NoError]
               ELSE ret)
    /\ UNCHANGED <<bindVars, progVars, components, seenPackages, descents,
                   snapCalls>>

\* ------------------------------------------------------- trees of Programs
\* The declarations of a tree, in some order, as pairs <<program, Node>>.
DeclChoices(kinds) ==
    {<<p, ComponentNode(d)>> : p \in ProgIds, d \in Dirs}
        \cup {<<p, OtherNode(k)>> : p \in ProgIds, k \in kinds}

InitIdle ==
    /\ body = [n \in NodeIds |-> <<>>]
    /\ node = [n \in NodeIds |-> NewNode]
    /\ bstack = <<>>
    /\ cursor = 1
    /\ diag = "ok"
    /\ cycle = <<>>
    /\ setCalls = [n \in NodeIds |-> 0]
    /\ ret = [op |-> "none"]
    /\ stack = <<>>
    /\ components = <<>>
    /\ seenPackages = <<>>
    /\ descents = NoDescents
    /\ snapCalls = NoSnapCalls

InitComp ==
    /\ InitIdle
    /\ \E decls \in SeqsUpTo(
              DeclChoices({"ConfigVariable", "OutputVariable", "Resource"}),
              MaxDecls) :
           Nodes = [p \in ProgIds |-> BodyOf(decls, p)]
    /\ referencedPackages = [p \in ProgIds |-> <<>>]
    /\ files = [p \in ProgIds |-> <<>>]
    /\ IsTree

NextComp ==
    \/ CallCollectComponents
    \/ collectComponentsRecursive_Descend
    \/ collectComponentsRecursive_Skip
    \/ collectComponentsRecursive_Return

SpecComp == InitComp /\ [][NextComp]_vars /\ WF_vars(NextComp)

\* The key under which a Program records the package called name.
PackageKey(name) == IF name = "aws" THEN <<1>> ELSE <<2>>

\* The package references of a tree as triples <<program, name, fails>>:
\* each Program holds its own reference, of its own version.
PackagesOf(refs, p) ==
    LET own == {i \in 1..Len(refs) : refs[i][1] = p}
        names == {refs[i][2] : i \in own}
        ref(name) == LET i == CHOOSE i \in own : refs[i][2] = name
                     IN PackageReference(name, p + 1, FALSE, refs[i][3])
    IN [k \in {PackageKey(name) : name \in names} |->
           ref(CHOOSE name \in names : PackageKey(name) = k)]

InitNest ==
    /\ InitIdle
    /\ \E decls \in SeqsUpTo(DeclChoices({"Resource"}), MaxTreeDecls) :
           Nodes = [p \in ProgIds |-> BodyOf(decls, p)]
    /\ IsTree
    /\ \E refs \in SeqsUpTo(ProgIds \X PkgNames \X BOOLEAN, MaxTreePkgs) :
           referencedPackages = [p \in ProgIds |-> PackagesOf(refs, p)]
    /\ NoStrayPackages
    /\ files = [p \in ProgIds |-> <<>>]

NextNest ==
    \/ CallCollectNestedPackageSnapshots
    \/ collectPackageSnapshots_Fail
    \/ collectPackageSnapshots_Merge
    \/ collectPackageSnapshots_Range
    \/ collectPackageSnapshots_Recurse
    \/ collectPackageSnapshots_Return
    \/ collectComponentsRecursive_Descend
    \/ collectComponentsRecursive_Skip
    \/ collectComponentsRecursive_Return

SpecNest == InitNest /\ [][NextNest]_vars /\ WF_vars(NextNest)

(***************************************************************************)
(* Structures in which Components reference each other circularly through  *)
(* shared directories: the Program of a directory may hold a Component of  *)
(* a directory it is itself reached from.                                  *)
(***************************************************************************)

\* The active calls of collectPackageSnapshots.
SnapshotDepth ==
    Cardinality({j \in 1..Len(stack) : stack[j].fn = "collectPackageSnapshots"})

\* The deepest nesting of collectPackageSnapshots that holds no Program
\* twice; the stand-in for the depth at which the runtime gives up.
StackLimit == MaxDirs + 1

ThrowFrame == [fn |-> "throw", p |-> Root, pc |-> "stack overflow",
               i |-> 1, comps |-> <<>>]

Thrown == stack # <<>> /\ StackTop.fn = "throw"

collectPackageSnapshots_RecurseWithinStack ==
    /\ SnapshotDepth < StackLimit
    /\ collectPackageSnapshots_Recurse

\* The recursion outgrows the stack: the runtime ends the process, no call
\* on the stack returns.
collectPackageSnapshots_StackOverflow ==
    /\ InSnapshots("loop")
    /\ StackTop.i <= Len(StackTop.comps)
    /\ SnapshotDepth >= StackLimit
    /\ stack' = Append(stack, ThrowFrame)
    /\ UNCHANGED <<bindVars, progVars, ret, components, seenPackages,
                   descents, snapCalls>>

NoStrayPrograms ==
    \A d \in Dirs \ ReachableDirs(Root) : Nodes[d] = <<>>

InitShared ==
    /\ InitIdle
    /\ \E decls \in SeqsUpTo(DeclChoices({"Resource"}), MaxTreeDecls) :
           Nodes = [p \in ProgIds |-> BodyOf(decls, p)]
    /\ NoStrayPrograms
    /\ \E refs \in SeqsUpTo(ProgIds \X PkgNames \X BOOLEAN, MaxTreePkgs) :
           referencedPackages = [p \in ProgIds |-> PackagesOf(refs, p)]
    /\ NoStrayPackages
    /\ files = [p \in ProgIds |-> <<>>]

NextShared ==
    \/ CallCollectComponents
    \/ CallCollectNestedPackageSnapshots
    \/ collectPackageSnapshots_Fail
    \/ collectPackageSnapshots_Merge
    \/ collectPackageSnapshots_Range
    \/ collectPackageSnapshots_RecurseWithinStack
    \/ collectPackageSnapshots_StackOverflow
    \/ collectPackageSnapshots_Return
    \/ collectComponentsRecursive_Descend
    \/ collectComponentsRecursive_Skip
    \/ collectComponentsRecursive_Return

SpecShared == InitShared /\ [][NextShared]_vars /\ WF_vars(NextShared)

\* ------------------------------------------------------------ SourceFiles
\* Number of source files in a tree of Programs.
MaxFiles == 2

FileNames == {"main.pp", "vars.pp"}

\* Paths are sequences of path elements: "./out" is <<".", "out">>.
\* node.source of a Component: its directory, relative to the declaring file.
source(n) == <<".", ToString(DirPath(n))>>

\* filepath.Clean on a relative path: "." elements go, ".." takes back the
\* element before it when there is one to take back.
RECURSIVE CleanFrom(_, _)
CleanFrom(done, rest) ==
    IF rest = <<>> THEN done
    ELSE LET e == Head(rest)
         IN IF e = "." THEN CleanFrom(done, Tail(rest))
            ELSE IF e = ".." /\ done # <<>> /\ done[Len(done)] # ".."
                 THEN CleanFrom(SubSeq(done, 1, Len(done) - 1), Tail(rest))
                 ELSE CleanFrom(Append(done, e), Tail(rest))

\* filepath.Join
JoinPath(a, b) == CleanFrom(<<>>, a \o b)

\* A nil *ProgramFile or *ProgramDirectory.
Nil == [nil |-> TRUE]

FileEntry(file) ==
    [File |-> [FileName |-> file.Name, Content |-> file.Bytes],
     Directory |-> Nil]

DirectoryEntry(dir) == [File |-> Nil, Directory |-> dir]

\* Faulty variant: the component is exported into the caller's directory.
ComponentDirectory_Unjoined(directory, n) == directory

ComponentDirectory(directory, n) == JoinPath(directory, source(n))

\* The first loop: one file entry per source file, from index i on.
RECURSIVE FileEntries(_, _, _)
FileEntries(p, i, entries) ==
    IF i > Len(files[p]) THEN entries
    ELSE FileEntries(p, i + 1, Append(entries, FileEntry(files[p][i])))

\* The second loop, from Node i on, and the returned directory.
RECURSIVE ComponentEntries(_, _, _, _)
RECURSIVE SourceFiles(_, _)
ComponentEntries(p, i, directory, entries) ==
    IF i > Len(Nodes[p]) THEN entries
    ELSE LET n == Nodes[p][i]
         IN IF IsComponent(n)
            THEN ComponentEntries(p, i + 1, directory,
                     Append(entries,
                            DirectoryEntry(
                                SourceFiles(ProgramOf(n),
                                            ComponentDirectory(directory, n)))))
            ELSE ComponentEntries(p, i + 1, directory, entries)

SourceFiles(p, directory) ==
    [Path |-> directory,
     Entries |-> ComponentEntries(p, 1, directory, FileEntries(p, 1, <<>>))]

ExportDirectories == {<<"out">>, <<".", "out">>}

CallSourceFiles(directory) ==
    /\ stack = <<>>
    /\ ret' = [op |-> "SourceFiles", directory |-> directory,
               tree |-> SourceFiles(Root, directory)]
    /\ UNCHANGED <<bindVars, progVars, walkVars>>

\* The source files of a tree as pairs <<program, file name>>.
FilesOf(decls, p) ==
    LET own == SelectSeq(decls, LAMBDA f : f[1] = p)
    IN [i \in 1..Len(own) |-> [Name |-> own[i][2], Bytes |-> <<p, i>>]]

NoStrayFiles ==
    \A d \in Dirs \ ReachableDirs(Root) : files[d] = <<>>

InitFiles ==
    /\ InitIdle
    /\ \E decls \in SeqsUpTo(DeclChoices({"Resource"}), MaxTreeDecls) :
           Nodes = [p \in ProgIds |-> BodyOf(decls, p)]
    /\ IsTree
    /\ referencedPackages = [p \in ProgIds |-> <<>>]
    /\ \E decls \in SeqsUpTo(ProgIds \X FileNames, MaxFiles) :
           files = [p \in ProgIds |-> FilesOf(decls, p)]
    /\ NoStrayFiles

NextFiles == \E directory \in ExportDirectories : CallSourceFiles(directory)

SpecFiles == InitFiles /\ [][NextFiles]_vars

(***************************************************************************)
(* ConfigVariables and OutputVariables.  A returned *ConfigVariable or     *)
(* *OutputVariable is the position of the node in Nodes, so that two nodes *)
(* with equal fields stay two nodes.                                       *)
(***************************************************************************)

\* Faulty variant: prepends.
AppendNode_Front(list, i) == <<i>> \o list

\* configVars = append(configVars, node)
AppendNode(list, i) == Append(list, i)

RECURSIVE ConfigVariablesFrom(_, _, _)
ConfigVariablesFrom(p, i, configVars) ==
    IF i > Len(Nodes[p]) THEN configVars
    ELSE ConfigVariablesFrom(p, i + 1,
             IF Nodes[p][i].kind = "ConfigVariable"
             THEN AppendNode(configVars, i)
             ELSE configVars)

ConfigVariables(p) == ConfigVariablesFrom(p, 1, <<>>)

RECURSIVE OutputVariablesFrom(_, _, _)
OutputVariablesFrom(p, i, outputs) ==
    IF i > Len(Nodes[p]) THEN outputs
    ELSE OutputVariablesFrom(p, i + 1,
             IF Nodes[p][i].kind = "OutputVariable"
             THEN AppendNode(outputs, i)
             ELSE outputs)

OutputVariables(p) == OutputVariablesFrom(p, 1, <<>>)

CallConfigVariables(p) ==
    /\ stack = <<>>
    /\ ret' = [op |-> "ConfigVariables", program |-> p,
               nodes |-> ConfigVariables(p)]
    /\ UNCHANGED <<bindVars, progVars, walkVars>>

CallOutputVariables(p) ==
    /\ stack = <<>>
    /\ ret' = [op |-> "OutputVariables", program |-> p,
               nodes |-> OutputVariables(p)]
    /\ UNCHANGED <<bindVars, progVars, walkVars>>

NextVars ==
    \/ \E p \in ProgIds : CallConfigVariables(p)
    \/ \E p \in ProgIds : CallOutputVariables(p)

SpecVars == InitComp /\ [][NextVars]_vars

(***************************************************************************)
(* All read operations on one tree of Programs with Nodes, packages and    *)
(* files.                                                                  *)
(***************************************************************************)
InitRead ==
    /\ InitIdle
    /\ \E decls \in SeqsUpTo(DeclChoices({"ConfigVariable", "OutputVariable"}),
                             MaxTreeDecls) :
           Nodes = [p \in ProgIds |-> BodyOf(decls, p)]
    /\ IsTree
    /\ \E refs \in SeqsUpTo(ProgIds \X PkgNames \X BOOLEAN, MaxTreePkgs) :
           referencedPackages = [p \in ProgIds |-> PackagesOf(refs, p)]
    /\ NoStrayPackages
    /\ \E decls \in SeqsUpTo(ProgIds \X FileNames, MaxFiles) :
           files = [p \in ProgIds |-> FilesOf(decls, p)]
    /\ NoStrayFiles

NextRead ==
    \/ CallPackageReferences
    \/ CallPackageSnapshots
    \/ \E directory \in ExportDirectories : CallSourceFiles(directory)
    \/ \E p \in ProgIds : CallConfigVariables(p)
    \/ \E p \in ProgIds : CallOutputVariables(p)
    \/ CallCollectComponents
    \/ collectComponentsRecursive_Descend
    \/ collectComponentsRecursive_Skip
    \/ collectComponentsRecursive_Return
    \/ CallCollectNestedPackageSnapshots
    \/ collectPackageSnapshots_Fail
    \/ collectPackageSnapshots_Merge
    \/ collectPackageSnapshots_Range
    \/ collectPackageSnapshots_Recurse
    \/ collectPackageSnapshots_Return

SpecRead == InitRead /\ [][NextRead]_vars

\* ------------------------------------------------------- reference graph
Refs(n) == Range(body[n])

RECURSIVE Closure(_)
Closure(S) ==
    LET T == S \cup UNION {Refs(m) : m \in S}
    IN IF T = S THEN S ELSE Closure(T)

\* The Nodes n references, directly or through other Nodes.
ReachableFrom(n) == Closure(Refs(n))

OnCycle(n) == n \in ReachableFrom(n)

HasCycle == \E n \in NodeIds : OnCycle(n)

\* n lies on a reference cycle or references one transitively.
ReachesCycle(n) == \E m \in ReachableFrom(n) \cup {n} : OnCycle(m)

AllBound == \A n \in NodeIds : bindingState(node[n]) = Bound

DepsMatchBodies ==
    \A n \in NodeIds : getDependencies(node[n]) = FirstOccurrences(body[n])

\* ------------------------------------------------------------------ claims

\* C1: when the reference graph among the Nodes is acyclic, the binding pass
\* terminates successfully with every Node Bound and every Node's dependency
\* list equal to the Nodes referenced in its body, each once, in
\* first-reference order.
C1_AcyclicBindsAll ==
    (~HasCycle) => <>[](diag = "ok" /\ AllBound /\ DepsMatchBodies)

\* C1 witness: a completed pass over an acyclic program whose first Node
\* references a later Node twice and then a Node declared before that one,
\* both bound recursively on its behalf.
C1_Witness ==
    /\ diag = "ok"
    /\ ~HasCycle
    /\ Len(body[1]) = 3
    /\ body[1][1] = body[1][2]
    /\ body[1][1] > body[1][3]
    /\ getDependencies(node[1]) = <<body[1][1], body[1][3]>>
    /\ AllBound

\* C2 (as amended): when the reference graph has a cycle, the pass ends with
\* a CircularDependencyError, and no Node that lies on a cycle or references
\* one transitively ever reaches state Bound.
C2_CycleFails ==
    HasCycle =>
        /\ [](\A n \in NodeIds :
                 ReachesCycle(n) => bindingState(node[n]) # Bound)
        /\ <>[](diag = "CircularDependencyError")

\* C2 witness: the pass failed on a cycle of two distinct Nodes.
C2_Witness ==
    /\ diag = "CircularDependencyError"
    /\ Len(cycle) = 3
    /\ cycle[1] = cycle[3]
    /\ cycle[1] # cycle[2]

\* C2 as stated: with a cycle in the Program no Node at all reaches Bound.
C2_NoNodeBound ==
    HasCycle => \A n \in NodeIds : bindingState(node[n]) # Bound

\* C3: under any sequence of markBinding and markBound calls the observed
\* binding state of a Node never moves backward in the order Unbound,
\* Binding, Bound, and isBound, once true, stays true.
C3_Monotonic ==
    [][\A n \in NodeIds :
          /\ bindingState(node'[n]) >= bindingState(node[n])
          /\ isBound(node[n]) => isBound(node'[n])]_vars

\* C3 witness: one Node was marked Binding and then Bound while another is
\* still Binding and a third was marked Bound without ever being Binding.
C3_Witness ==
    /\ \E n \in NodeIds : isBound(node[n]) /\ node[n].binding
    /\ \E n \in NodeIds : isBinding(node[n])
    /\ \E n \in NodeIds : isBound(node[n]) /\ ~node[n].binding

\* The keys of the root Program's referenced-package mapping, ascending.
AscendingKeys ==
    CHOOSE ks \in RangeOrders(DOMAIN referencedPackages[Root]) :
        \A i, j \in 1..Len(ks) : i < j => StrLess(ks[i], ks[j])

RootRef(i) == referencedPackages[Root][AscendingKeys[i]]

\* Index in key order of the first reference whose loader call fails, or 0.
FirstFailing ==
    LET bad == {i \in 1..Len(AscendingKeys) : RootRef(i).fails}
    IN IF bad = {} THEN 0 ELSE CHOOSE i \in bad : \A j \in bad : i <= j

\* C4: PackageReferences() returns one entry per key of the mapping, in
\* ascending lexicographic key order, and PackageSnapshots() resolves the
\* references in that same order, one package per key when it succeeds,
\* whatever order the map yields its keys in.
C4_SortedByKey ==
    /\ ret.op = "PackageReferences" =>
           /\ Len(ret.refs) = Len(AscendingKeys)
           /\ \A i \in 1..Len(ret.refs) : ret.refs[i] = RootRef(i)
    /\ ret.op = "PackageSnapshots" =>
           /\ \A i \in 1..Len(ret.calls) : ret.calls[i][1] = AscendingKeys[i]
           /\ ~ret.err.failed =>
                  /\ Len(ret.values) = Len(AscendingKeys)
                  /\ \A i \in 1..Len(ret.values) :
                         /\ ret.values[i].name = RootRef(i).name
                         /\ ret.values[i].version = RootRef(i).version

\* C4 witness: PackageReferences() returned three different references
\* whose keys include "a", "aa" and "b".
C4_Witness ==
    /\ ret.op = "PackageReferences"
    /\ DOMAIN referencedPackages[Root] = {<<1>>, <<1, 1>>, <<2>>}
    /\ Len(ret.refs) = 3
    /\ ret.refs[1] # ret.refs[2]
    /\ ret.refs[2] # ret.refs[3]

\* C5: PackageSnapshots() fails exactly when some reference fails to
\* resolve; it then returns a nil list and an error naming the first failing
\* package in key order, and the loader was called for the keys up to that
\* one and for no later key.
C5_FailFast ==
    ret.op = "PackageSnapshots" =>
        /\ ret.err.failed <=> FirstFailing # 0
        /\ ret.err.failed =>
               /\ ret.isNil
               /\ ret.values = <<>>
               /\ ret.err.name = RootRef(FirstFailing).name
               /\ Len(ret.calls) = FirstFailing
               /\ \A i \in 1..Len(ret.calls) :
                      ret.calls[i][1] = AscendingKeys[i]

\* C5 witness: of three references the first resolved, the second failed
\* and the third was never asked for.
C5_Witness ==
    /\ ret.op = "PackageSnapshots"
    /\ ret.err.failed
    /\ Len(AscendingKeys) = 3
    /\ Len(ret.calls) = 2
    /\ RootRef(3).fails

\* C6: on success the i-th package of PackageSnapshots() comes from the
\* i-th reference of PackageReferences(), through Snapshot() when that
\* reference is a PartialPackage and through Definition() otherwise; no
\* loader call ever uses Definition() on a PartialPackage or Snapshot() on a
\* full package.
C6_SnapshotOrDefinition ==
    ret.op = "PackageSnapshots" =>
        /\ \A i \in 1..Len(ret.calls) :
               LET ref == referencedPackages[Root][ret.calls[i][1]]
               IN ret.calls[i][2] = "Snapshot" <=> ref.partial
        /\ ~ret.err.failed =>
               \A order \in RangeOrders(DOMAIN referencedPackages[Root]) :
                   LET refs == PackageReferences(Root, order)
                   IN /\ Len(ret.values) = Len(refs)
                      /\ \A i \in 1..Len(refs) :
                             /\ ret.values[i].name = refs[i].name
                             /\ ret.values[i].version = refs[i].version
                             /\ ret.values[i].via =
                                    (IF refs[i].partial
                                     THEN "Snapshot" ELSE "Definition")

\* C6 witness: a successful PackageSnapshots() over a partial and a full
\* package.
C6_Witness ==
    /\ ret.op = "PackageSnapshots"
    /\ ~ret.err.failed
    /\ \E i, j \in 1..Len(ret.values) :
           /\ ret.values[i].via = "Snapshot"
           /\ ret.values[j].via = "Definition"

\* The Components a depth-first walk in declaration order meets first for
\* each directory: acc maps the directories met so far to <<program, index>>.
RECURSIVE FirstMet(_, _, _)
FirstMet(p, i, acc) ==
    IF i > Len(Nodes[p]) THEN acc
    ELSE LET n == Nodes[p][i]
         IN IF n.kind = "Component" /\ n.dir \notin DOMAIN acc
            THEN FirstMet(p, i + 1,
                          FirstMet(n.dir, 1, (n.dir :> <<p, i>>) @@ acc))
            ELSE FirstMet(p, i + 1, acc)

\* C7: CollectComponents returns one entry per distinct component directory
\* reachable from the root, that entry is the first Component of the
\* directory met in depth-first declaration order, and the nested Program
\* of each directory is descended exactly once (never twice at any point of
\* the walk).
C7_OneEntryPerDirectory ==
    /\ \A d \in Dirs : descents[d] <= 1
    /\ ret.op = "CollectComponents" =>
           /\ DOMAIN ret.components = ReachableDirs(Root)
           /\ ret.components = FirstMet(Root, 1, <<>>)
           /\ \A d \in Dirs :
                  descents[d] = (IF d \in DOMAIN ret.components THEN 1 ELSE 0)

\* C7 witness: the root declares Components of directories 1 and 2, the
\* Program of directory 1 declares a Component of directory 2 as well, and
\* the entry returned for directory 2 is the nested one, met first.
C7_Witness ==
    /\ ret.op = "CollectComponents"
    /\ Len(Nodes[Root]) = 2
    /\ Nodes[Root][1] = ComponentNode(1)
    /\ Nodes[Root][2] = ComponentNode(2)
    /\ Nodes[1] = <<ComponentNode(2)>>
    /\ ret.components[2] = <<1, 1>>
    /\ descents[2] = 1

\* The package the root's reference ref resolves to.
RootSnapshot(ref) ==
    [name |-> ref.name, version |-> ref.version,
     via |-> IF ref.partial THEN "Snapshot" ELSE "Definition"]

RootRefs == {referencedPackages[Root][k] : k \in DOMAIN referencedPackages[Root]}

TreeRefs ==
    UNION {{referencedPackages[p][k] : k \in DOMAIN referencedPackages[p]} :
               p \in {Root} \cup ReachableDirs(Root)}

\* C8: when the root's own packages resolve, the mapping returned by
\* CollectNestedPackageSnapshots holds, for every package name the root
\* references, the root's snapshot of it, whatever nested components
\* reference under the same name; every entry is filed under its own name,
\* and on success there is one entry for each name referenced in the tree.
C8_RootFirstWins ==
    ret.op = "CollectNestedPackageSnapshots" =>
        /\ \A name \in DOMAIN ret.packages : ret.packages[name].name = name
        /\ (\A ref \in RootRefs : ~ref.fails) =>
               \A ref \in RootRefs :
                   /\ ref.name \in DOMAIN ret.packages
                   /\ ret.packages[ref.name] = RootSnapshot(ref)
        /\ ~ret.err.failed =>
               DOMAIN ret.packages = {ref.name : ref \in TreeRefs}

\* C8 witness: the root and a component nested in it reference packages of
\* the same name in different versions, the call succeeded, and the entry
\* returned is the root's.
C8_Witness ==
    /\ ret.op = "CollectNestedPackageSnapshots"
    /\ ~ret.err.failed
    /\ \E r \in RootRefs, d \in ReachableDirs(Root) :
           \E k \in DOMAIN referencedPackages[d] :
               /\ referencedPackages[d][k].name = r.name
               /\ referencedPackages[d][k].version # r.version
               /\ ret.packages[r.name].version = r.version

\* C9 as stated: a failed CollectNestedPackageSnapshots hands no package
\* mapping collected before the failure to its caller.
C9_NoPartialMapping ==
    (ret.op = "CollectNestedPackageSnapshots" /\ ret.err.failed) =>
        DOMAIN ret.packages = {}

\* C10 as stated: during one CollectNestedPackageSnapshots call
\* PackageSnapshots() is computed at most once for the root and at most
\* once for the Program of each component directory.
C10_SnapshotsOncePerProgram ==
    \A p \in ProgIds : snapCalls[p] <= 1

\* The indices of the Component nodes of program p, in declaration order.
ComponentIndices(p) ==
    SelectSeq([i \in 1..Len(Nodes[p]) |-> i],
              LAMBDA i : Nodes[p][i].kind = "Component")

\* tree is the directory of program p at path d: first the files of p in
\* file order, then one directory per Component of p in declaration order,
\* each the directory of the nested Program at join(d, source).
RECURSIVE MirrorsProgram(_, _, _)
MirrorsProgram(tree, p, d) ==
    LET nf == Len(files[p])
        cs == ComponentIndices(p)
    IN /\ tree.Path = d
       /\ Len(tree.Entries) = nf + Len(cs)
       /\ \A i \in 1..nf :
              /\ tree.Entries[i].Directory = Nil
              /\ tree.Entries[i].File =
                     [FileName |-> files[p][i].Name,
                      Content |-> files[p][i].Bytes]
       /\ \A k \in 1..Len(cs) :
              LET e == tree.Entries[nf + k]
                  n == Nodes[p][cs[k]]
              IN /\ e.File = Nil
                 /\ MirrorsProgram(e.Directory, n.dir,
                                   JoinPath(d, <<".", ToString(n.dir)>>))

\* C11: SourceFiles(d) returns a directory with Path d holding one file
\* entry per source file of the Program in file order, then one directory
\* entry per Component node in declaration order, each the nested Program's
\* SourceFiles at join(d, component source), recursively.
C11_SourceFilesMirrorsTree ==
    ret.op = "SourceFiles" => MirrorsProgram(ret.tree, Root, ret.directory)

\* C11 witness: a root with file main.pp and one component, exported to
\* "out": the tree is out/{main.pp, out/1/{one file}}.
C11_Witness ==
    /\ ret.op = "SourceFiles"
    /\ ret.directory = <<"out">>
    /\ Len(files[Root]) = 1
    /\ files[Root][1].Name = "main.pp"
    /\ Nodes[Root] = <<ComponentNode(1)>>
    /\ Len(ret.tree.Entries) = 2
    /\ ret.tree.Entries[1].File.FileName = "main.pp"
    /\ ret.tree.Entries[2].Directory.Path = <<"out", "1">>
    /\ Len(ret.tree.Entries[2].Directory.Entries) = 1

\* The positions in Nodes of program p that hold a node of the given variant.
PositionsOf(p, kind) ==
    {i \in 1..Len(Nodes[p]) : Nodes[p][i].kind = kind}

\* list holds exactly the positions in set, each once, in ascending order.
IsSubsequenceOf(list, set) ==
    /\ {list[k] : k \in 1..Len(list)} = set
    /\ \A j, k \in 1..Len(list) : j < k => list[j] < list[k]

\* C12: ConfigVariables() and OutputVariables() return exactly the nodes of
\* that variant as a subsequence of Nodes: none missing, none repeated, none
\* of another variant, in the order they have in Nodes.
C12_VariablesAreSubsequence ==
    /\ ret.op = "ConfigVariables" =>
           IsSubsequenceOf(ret.nodes, PositionsOf(ret.program, "ConfigVariable"))
    /\ ret.op = "OutputVariables" =>
           IsSubsequenceOf(ret.nodes, PositionsOf(ret.program, "OutputVariable"))

\* C12 witness: two config variables with an output variable between them.
C12_Witness ==
    /\ ret.op = "ConfigVariables"
    /\ ret.program = Root
    /\ Nodes[Root] = <<OtherNode("ConfigVariable"), OtherNode("OutputVariable"),
                       OtherNode("ConfigVariable")>>
    /\ ret.nodes = <<1, 3>>

\* The walk of the Node on top of the active stack has met a reference.
AtReference ==
    /\ diag = "running"
    /\ bstack # <<>>
    /\ Top.i <= Len(body[Top.n])

\* The Node that the reference met refers to.
Referenced == body[Top.n][Top.i]

\* C14: when the walk of a Node meets a reference to that same Node, the
\* Node is Binding (isBinding true, isBound false) and the step taken fails
\* the pass with a CircularDependencyError whose chain is the Node back to
\* itself; the Node is neither entered again nor used as a dependency.
C14_SelfReferenceIsCycle ==
    [][(AtReference /\ Referenced = Top.n) =>
           /\ isBinding(node[Top.n])
           /\ ~isBound(node[Top.n])
           /\ diag' = "CircularDependencyError"
           /\ cycle' = <<Top.n, Top.n>>
           /\ node' = node
           /\ setCalls' = setCalls]_vars

\* C14 witness: the pass failed on Node 2 referencing itself.
C14_Witness ==
    /\ diag = "CircularDependencyError"
    /\ cycle = <<2, 2>>
    /\ Contains(body[2], 2)
    /\ isBinding(node[2])

\* The Nodes on the active binding stack.
OnStack == {bstack[j].n : j \in 1..Len(bstack)}

\* C15: while the pass runs (and when it has completed), the Nodes with
\* isBinding() true are exactly the Nodes on the active binding stack;
\* isBinding() and isBound() are never both true of a Node, and the chain of
\* a reported cycle holds no Bound Node.
C15_BindingIsOnStack ==
    /\ diag \in {"running", "ok"} =>
           {n \in NodeIds : isBinding(node[n])} = OnStack
    /\ \A n \in NodeIds : ~(isBinding(node[n]) /\ isBound(node[n]))
    /\ diag = "CircularDependencyError" =>
           \A k \in 1..Len(cycle) : ~isBound(node[cycle[k]])

\* C15 witness: two Nodes are on the stack and the walk of the upper one
\* meets a Node that is already Bound.
C15_Witness ==
    /\ AtReference
    /\ Len(bstack) = 2
    /\ isBound(node[Referenced])
    /\ {n \in NodeIds : isBinding(node[n])} = {bstack[1].n, bstack[2].n}

\* s holds no element twice.
NoDuplicates(s) == \A j, k \in 1..Len(s) : j # k => s[j] # s[k]

\* C16: setDependencies has been called once on every Node whose bound flag
\* is set and never on any other Node; the call that installs a list
\* installs one without duplicates whose Nodes all have their bound flag
\* set before the call.
C16_DependenciesSetOnce ==
    /\ [](\A n \in NodeIds : setCalls[n] = IF node[n].bound THEN 1 ELSE 0)
    /\ [][\A n \in NodeIds : setCalls'[n] # setCalls[n] =>
              /\ setCalls[n] = 0
              /\ node'[n].bound
              /\ NoDuplicates(getDependencies(node'[n]))
              /\ \A k \in 1..Len(getDependencies(node'[n])) :
                     node[getDependencies(node'[n])[k]].bound]_vars

\* C16 witness: a Node was bound with two dependencies, one referenced twice.
C16_Witness ==
    \E n \in NodeIds :
        /\ setCalls[n] = 1
        /\ Len(body[n]) = 3
        /\ Len(getDependencies(node[n])) = 2

\* C17: the key set of the result of CollectComponents is the set of
\* directories of all Components reachable from the root through nested
\* Programs, and the entry of a directory is a Component of that directory:
\* the directory-based skip loses no reachable Component.
C17_CollectComponentsComplete ==
    ret.op = "CollectComponents" =>
        /\ \A d \in ReachableDirs(Root) : d \in DOMAIN ret.components
        /\ \A d \in DOMAIN ret.components :
               LET c == ret.components[d]
               IN /\ c[1] \in {Root} \cup ReachableDirs(Root)
                  /\ c[2] \in 1..Len(Nodes[c[1]])
                  /\ IsComponent(Nodes[c[1]][c[2]])
                  /\ DirPath(Nodes[c[1]][c[2]]) = d

\* C17 witness: the root declares two Components of directory 1, the second
\* is skipped, and directory 2 is reachable through the Program of 1 only.
C17_Witness ==
    /\ ret.op = "CollectComponents"
    /\ Nodes[Root] = <<ComponentNode(1), ComponentNode(1)>>
    /\ Nodes[1] = <<ComponentNode(2)>>
    /\ DOMAIN ret.components = {1, 2}

\* C18: CollectComponents terminates on every finite structure, circular
\* ones included, each directory being entered at most once, and
\* CollectNestedPackageSnapshots terminates wherever CollectComponents
\* does: every call of either walk returns to its caller.
C18_WalksTerminate ==
    (stack # <<>>) ~> (stack = <<>>)

\* What collectPackageSnapshots leaves in the accumulator seen when every
\* range over a component map runs in ascending order of directory.
RECURSIVE SnapshotsAscending(_, _)
RECURSIVE SnapshotsOfComponents(_, _)
SnapshotsAscending(p, seen) ==
    LET order == CHOOSE o \in RangeOrders(DOMAIN referencedPackages[p]) : TRUE
        r == PackageSnapshots(p, order)
    IN SnapshotsOfComponents(ReachableDirs(p), MergePackages(seen, r.values))
SnapshotsOfComponents(dirs, seen) ==
    IF dirs = {} THEN seen
    ELSE LET d == CHOOSE x \in dirs : \A y \in dirs : x <= y
         IN SnapshotsOfComponents(dirs \ {d}, SnapshotsAscending(d, seen))

\* C19: the mapping CollectNestedPackageSnapshots returns for a tree does
\* not depend on the order in which the component maps are iterated: it is
\* the mapping obtained with one fixed order, also when two components
\* reference different snapshots of a package the root does not reference.
C19_OrderIndependent ==
    (ret.op = "CollectNestedPackageSnapshots" /\ ~ret.err.failed) =>
        ret.packages = SnapshotsAscending(Root, <<>>)

\* A call of one of the two aggregating walks starts.
WalkStarts == stack = <<>> /\ stack' # <<>>

\* C20: no step of a read operation changes the Program (Nodes and their
\* order, the binding state and dependency list of every Node, the file
\* set, the referenced packages); CollectComponents and
\* CollectNestedPackageSnapshots start from an empty accumulator, and what
\* they return is fixed by the Program, so that a repeated call returns an
\* equal result.
C20_ReadsLeaveProgramUnchanged ==
    /\ [][/\ progVars' = progVars
          /\ node' = node
          /\ body' = body]_vars
    /\ [][WalkStarts =>
              IF stack'[1].fn = "collectComponentsRecursive"
              THEN components' = <<>>
              ELSE seenPackages' = <<>>]_vars
    /\ [](ret.op = "CollectComponents" =>
              ret.components = FirstMet(Root, 1, <<>>))
    /\ [](ret.op = "CollectNestedPackageSnapshots" =>
              \/ ret.err.failed
              \/ ret.packages = SnapshotsAscending(Root, <<>>))

====
